---- MODULE Spec2Model ----
(***************************************************************************)
(* A model of src/index.js: the rucaptcha client `Solver`.                 *)
(*                                                                         *)
(* State: the caller's settings object, the client instance the            *)
(* constructor produced, the caller's options objects (they are mutated in *)
(* place by _sendImage), and for every solve call the locals of the async  *)
(* functions it runs plus a position (pc), and the same for the getBalance *)
(* and the report call (other).  Every `await` on an HTTP                  *)
(* request, a file read or a delay is a suspension point, so each such     *)
(* request is split into the step that issues it and the step that         *)
(* receives its outcome.                                                   *)
(*                                                                         *)
(* Text whose characters matter (the image argument, the `request` field   *)
(* of the submission response) is a sequence of character codes; a Buffer  *)
(* is a sequence of bytes.                                                 *)
(***************************************************************************)
EXTENDS Integers, Sequences, FiniteSets, TLC

VARIABLES settings, solver, heap, call, other

vars == <<settings, solver, heap, call, other>>

-----------------------------------------------------------------------------
(* Bounds of the model.                                                    *)

\* The poll history of a call records its first MaxPolls responses, and the
\* counters of waits and GETs count up to MaxPolls: a counter equal to
\* MaxPolls reads "MaxPolls or more".  The loop itself is not bounded.
MaxPolls == 4

-----------------------------------------------------------------------------
(* JavaScript values.                                                      *)

Undefined == [t |-> "undefined", v |-> ""]
Str(s) == [t |-> "str", v |-> s]
Num(n) == [t |-> "num", v |-> n]

\* ToBoolean, as used by `!x` and `x || y`.
Truthy(x) ==
    CASE x.t = "undefined" -> FALSE
      [] x.t = "str" -> x.v # ""
      [] x.t = "num" -> x.v # 0
      [] OTHER -> TRUE

Min(a, b) == IF a < b THEN a ELSE b

\* "http" as character codes: what /^(http|https)/ has to find at index 0.
HttpChars == <<104, 116, 116, 112>>

\* '=' is character 61.
IsPad(c) == c = 61

\* [A-Za-z0-9+/]
IsB64Char(c) ==
    \/ c \in 65..90
    \/ c \in 97..122
    \/ c \in 48..57
    \/ c = 43
    \/ c = 47

\* The six-bit value of a base64 character.
B64Val(c) ==
    CASE c \in 65..90 -> c - 65
      [] c \in 97..122 -> c - 71
      [] c \in 48..57 -> c + 4
      [] c = 43 -> 62
      [] c = 47 -> 63
      [] OTHER -> 0

\* The base64 character of a six-bit value.
B64Char(v) ==
    CASE v \in 0..25 -> v + 65
      [] v \in 26..51 -> v + 71
      [] v \in 52..61 -> v - 4
      [] v = 62 -> 43
      [] OTHER -> 47

\* /^([A-Za-z0-9+/]{4})*([A-Za-z0-9+/]{4}|[A-Za-z0-9+/]{3}=|[A-Za-z0-9+/]{2}==)$/
isBase64(str) ==
    LET n == Len(str) IN
    /\ n >= 4
    /\ n % 4 = 0
    /\ \A i \in 1..(n - 2) : IsB64Char(str[i])
    /\ \/ IsB64Char(str[n - 1]) /\ IsB64Char(str[n])
       \/ IsB64Char(str[n - 1]) /\ IsPad(str[n])
       \/ IsPad(str[n - 1]) /\ IsPad(str[n])

\* /^(http|https)/.test(str): the second alternative never decides.
MatchesHttp(str) ==
    /\ Len(str) >= 4
    /\ SubSeq(str, 1, 4) = HttpChars

\* String(buffer), the coercion RegExp.prototype.test applies to a Buffer:
\* a UTF-8 decode.  Bytes below 128 are their own character; the buffers of
\* this model hold no valid multi-byte sequence, so every other byte decodes
\* to U+FFFD.
BufferToString(bytes) ==
    [i \in 1..Len(bytes) |-> IF bytes[i] < 128 THEN bytes[i] ELSE 65533]

\* The bytes of one group of four base64 characters.
DecodeGroup(g) ==
    LET v == B64Val(g[1]) * 262144 + B64Val(g[2]) * 4096
             + (IF IsPad(g[3]) THEN 0 ELSE B64Val(g[3]) * 64)
             + (IF IsPad(g[4]) THEN 0 ELSE B64Val(g[4]))
        all == <<v \div 65536, (v \div 256) % 256, v % 256>>
    IN  IF IsPad(g[3]) THEN SubSeq(all, 1, 1)
        ELSE IF IsPad(g[4]) THEN SubSeq(all, 1, 2)
        ELSE all

\* Buffer.from(str, 'base64') on a string isBase64 accepts.
RECURSIVE Base64Decode(_)
Base64Decode(str) ==
    IF Len(str) < 4 THEN <<>>
    ELSE DecodeGroup(SubSeq(str, 1, 4)) \o Base64Decode(SubSeq(str, 5, Len(str)))

\* The characters of one group of one, two or three bytes.
EncodeGroup(b) ==
    LET n == Len(b)
        v == b[1] * 65536 + (IF n >= 2 THEN b[2] * 256 ELSE 0)
             + (IF n >= 3 THEN b[3] ELSE 0)
    IN  << B64Char(v \div 262144),
           B64Char((v \div 4096) % 64),
           IF n >= 2 THEN B64Char((v \div 64) % 64) ELSE 61,
           IF n >= 3 THEN B64Char(v % 64) ELSE 61 >>

\* buf.toString('base64')
RECURSIVE _bufferToBase64(_)
_bufferToBase64(buf) ==
    IF Len(buf) = 0 THEN <<>>
    ELSE EncodeGroup(SubSeq(buf, 1, Min(3, Len(buf))))
         \o _bufferToBase64(SubSeq(buf, 4, Len(buf)))


\* The digits a string starts with, as a number; -1 when it starts with none.
RECURSIVE DigitsValue(_, _, _)
DigitsValue(str, acc, seen) ==
    IF Len(str) > 0 /\ Head(str) \in 48..57
    THEN DigitsValue(Tail(str), acc * 10 + (Head(str) - 48), TRUE)
    ELSE IF seen THEN acc ELSE -1

RECURSIVE SkipSpaces(_)
SkipSpaces(str) ==
    IF Len(str) > 0 /\ Head(str) = 32 THEN SkipSpaces(Tail(str)) ELSE str

NaN == [t |-> "nan", v |-> 0]

\* parseInt(str) for decimal text: leading blanks, an optional sign, then the
\* longest run of digits; NaN when there is no digit.  (No input of the model
\* starts with "0x", the one case parseInt reads in another radix.)
parseInt(str) ==
    LET s1 == SkipSpaces(str)
        neg == Len(s1) > 0 /\ Head(s1) = 45
        s2 == IF Len(s1) > 0 /\ Head(s1) \in {43, 45} THEN Tail(s1) ELSE s1
        n == DigitsValue(s2, 0, FALSE)
    IN  IF n < 0 THEN NaN ELSE Num(IF neg THEN 0 - n ELSE n)

\* The run of digits a string starts with.
RECURSIVE LeadingDigits(_)
LeadingDigits(str) ==
    IF Len(str) > 0 /\ Head(str) \in 48..57
    THEN <<Head(str)>> \o LeadingDigits(Tail(str))
    ELSE <<>>

RECURSIVE DropTrailingZeros(_)
DropTrailingZeros(digits) ==
    IF Len(digits) > 0 /\ digits[Len(digits)] = 48
    THEN DropTrailingZeros(SubSeq(digits, 1, Len(digits) - 1))
    ELSE digits

\* A number that is no integer: its sign, its whole part and the digits of its
\* fraction.
Float(neg, whole, frac) ==
    [t |-> "float", neg |-> neg, whole |-> whole, frac |-> frac]

\* parseFloat(str) for plain decimal text: leading blanks, an optional sign,
\* digits, an optional point and digits; whatever follows is ignored; NaN when
\* no number stands at the start.  (No input of the model has an exponent or
\* spells Infinity.)
parseFloat(str) ==
    LET s1 == SkipSpaces(str)
        neg == Len(s1) > 0 /\ Head(s1) = 45
        s2 == IF Len(s1) > 0 /\ Head(s1) \in {43, 45} THEN Tail(s1) ELSE s1
        wholeDigits == LeadingDigits(s2)
        rest == SubSeq(s2, Len(wholeDigits) + 1, Len(s2))
        fracDigits == IF Len(rest) > 0 /\ Head(rest) = 46
                      THEN LeadingDigits(Tail(rest))
                      ELSE <<>>
        whole == IF Len(wholeDigits) = 0 THEN 0
                 ELSE DigitsValue(wholeDigits, 0, FALSE)
        frac == DropTrailingZeros(fracDigits)
    IN  IF Len(wholeDigits) = 0 /\ Len(fracDigits) = 0 THEN NaN
        ELSE IF frac = <<>> THEN Num(IF neg THEN 0 - whole ELSE whole)
        ELSE Float(neg, whole, frac)

\* querystring's stringifyPrimitive: a string as it is, a finite number in
\* decimal, anything else as the empty string.  (Percent-escaping is left
\* out: no value of the model holds a character that is escaped.)
StringifyPrimitive(x) ==
    CASE x.t = "str" -> x.v
      [] x.t = "num" -> ToString(x.v)
      [] OTHER -> ""

\* querystring.stringify(obj), as the mapping from each key to its text.
Stringify(obj) == [k \in DOMAIN obj |-> StringifyPrimitive(obj[k])]

\* Object.assign(target, source): the target after the call.
ObjectAssign(target, source) ==
    [k \in (DOMAIN target) \cup (DOMAIN source) |->
        IF k \in DOMAIN source THEN source[k] ELSE target[k]]

EmptyObject == [k \in {} |-> Undefined]

-----------------------------------------------------------------------------
(* The inputs the environment supplies.                                    *)

Calls == {"c1", "c2"}

\* What the caller may pass to `new Solver(...)`.
NoSettings == [t |-> "undefined"]
SettingsObject(apiKey, retryInterval, retryCount) ==
    [t |-> "object", apiKey |-> apiKey, retryInterval |-> retryInterval,
     retryCount |-> retryCount]
SettingsInputs ==
    { NoSettings,
      [t |-> "string"],
      SettingsObject(Undefined, Num(500), Undefined),
      SettingsObject(Str(""), Undefined, Undefined),
      SettingsObject(Str("k1"), Undefined, Undefined),
      SettingsObject(Str("k1"), Num(0), Num(1)),
      SettingsObject(Str("k1"), Num(500), Num(2)) }

StringImage(chars) == [kind |-> "string", data |-> chars]
BufferImage(bytes) == [kind |-> "buffer", data |-> bytes]
NoImage == [kind |-> "none", data |-> <<>>]

\* The image arguments of solve: "aGVsbG8=", "QQ==", "QUI=", "http" (base64
\* text that starts with the letters http), "http://a", "httpx", "a.png",
\* and four Buffers, one of them holding the bytes of "http".
Images ==
    { StringImage(<<97, 71, 86, 115, 98, 71, 56, 61>>),
      StringImage(<<81, 81, 61, 61>>),
      StringImage(<<81, 85, 73, 61>>),
      StringImage(<<104, 116, 116, 112>>),
      StringImage(<<104, 116, 116, 112, 58, 47, 47, 97>>),
      StringImage(<<104, 116, 116, 112, 120>>),
      StringImage(<<97, 46, 112, 110, 103>>),
      BufferImage(<<>>),
      BufferImage(<<1, 2, 3>>),
      BufferImage(<<134, 255>>),
      BufferImage(<<104, 116, 116, 112>>) }

\* Errors: what `throw` raises and what a failed primitive rejects with.
Error(message) == [name |-> "Error", message |-> message]
NoError == [name |-> "", message |-> Undefined]
RequestError == [name |-> "RequestError", message |-> Str("ESOCKETTIMEDOUT")]
FileError == [name |-> "Error", message |-> Str("ENOENT")]
SyntaxError == [name |-> "SyntaxError", message |-> Str("Unexpected token")]

\* request.get({url: image, encoding: null}): a body, or a failure.
FetchOutcomes ==
    { [ok |-> TRUE, body |-> <<104, 105>>, error |-> NoError],
      [ok |-> FALSE, body |-> <<>>, error |-> RequestError] }

\* fs.readFile(image): the contents, or a failure.
ReadOutcomes ==
    { [ok |-> TRUE, body |-> <<1, 2, 3>>, error |-> NoError],
      [ok |-> FALSE, body |-> <<>>, error |-> FileError] }

Chars(s) == [t |-> "chars", v |-> s]

\* What request.post resolves to: the text of a JSON object {status, request}
\* (here already as the object JSON.parse yields), text that is no JSON, or a
\* failure of the request.  The request fields are "42", "x1" and "ERR".
Json(status, request) ==
    [ok |-> TRUE, json |-> TRUE, status |-> status, request |-> request]
NotJson == [ok |-> TRUE, json |-> FALSE, status |-> 0, request |-> Undefined]
RequestFailed == [ok |-> FALSE, json |-> FALSE, status |-> 0, request |-> Undefined]
NoResponse == [ok |-> FALSE, json |-> FALSE, status |-> -1, request |-> Undefined]

PostOutcomes ==
    { Json(1, Chars(<<52, 50>>)),
      Json(1, Chars(<<120, 49>>)),
      Json(0, Chars(<<69, 82, 82>>)),
      NotJson,
      RequestFailed }

NotReady == Json(0, Str("CAPCHA_NOT_READY"))

\* What request.get on the result endpoint resolves to.
PollOutcomes ==
    { NotReady,
      Json(1, Str("ABCD")),
      Json(0, Str("ERROR_WRONG_CAPTCHA_ID")),
      Json(2, Str("ERROR_WRONG_CAPTCHA_ID")),
      NotJson,
      RequestFailed }

\* What request.get resolves to for getBalance: the texts "12.50", "7" and
\* "ERROR_WRONG_USER_KEY", or a failure.
BalanceOutcomes ==
    { [ok |-> TRUE, body |-> <<49, 50, 46, 53, 48>>, error |-> NoError],
      [ok |-> TRUE, body |-> <<55>>, error |-> NoError],
      [ok |-> TRUE, body |-> <<69, 82, 82, 79, 82, 95, 87, 82, 79, 78, 71, 95,
                               85, 83, 69, 82, 95, 75, 69, 89>>,
       error |-> NoError],
      [ok |-> FALSE, body |-> <<>>, error |-> RequestError] }

\* What request.get resolves to for report, and the id report is called with.
ReportOutcomes ==
    { [ok |-> TRUE, body |-> Str("OK_REPORT_RECORDED"), error |-> NoError],
      [ok |-> FALSE, body |-> Undefined, error |-> RequestError] }
ReportIds == {Num(42)}

\* The caller's options objects.  An object named after a call is the fresh
\* {} that `options = {}` creates when that call passes no options.
ObjIds == {"o1", "o2"} \cup Calls

InitialHeap ==
    [o \in ObjIds |->
        CASE o = "o1" -> [k \in {"numeric"} |-> Num(1)]
          [] o = "o2" -> [k \in {"key", "method", "json", "phrase"} |->
                            CASE k = "key" -> Str("zz")
                              [] k = "method" -> Str("post")
                              [] k = "json" -> Num(0)
                              [] OTHER -> Num(1)]
          [] OTHER -> EmptyObject]


-----------------------------------------------------------------------------
(* The state.                                                              *)

\* No client: `new Solver` has not run, or it threw.  Next to the fields of the
\* instance stand the error the constructor threw and, for the properties,
\* the settings object as it was when the constructor ran (captured).
NoSolver ==
    [state |-> "none", apiKey |-> Undefined, retryInterval |-> Undefined,
     POST_URL |-> "", GET_URL |-> "", error |-> NoError,
     captured |-> NoSettings]

EmptyQuery == Stringify(EmptyObject)

\* A solve call that has not started: the locals of solve, _sendImage and
\* _getAnswer, the value solve resolved to or the error it rejected with, and
\* what the call has done so far (given: the options as the caller passed
\* them; fetches, reads, decodes, posts, waits, gets: how many of each it
\* started; polls: the poll responses it received; failedAt: the stage whose
\* HTTP or file primitive failed; settingsAtCall: the caller's settings object
\* as it was when solve was called).
IdleCall ==
    [pc |-> "idle", image |-> NoImage, options |-> "none",
     given |-> EmptyObject,
     buffer |-> <<>>, base64Image |-> <<>>,
     postQuery |-> EmptyQuery, postBody |-> <<>>, postResponse |-> NoResponse,
     id |-> Undefined, getQuery |-> EmptyQuery, delay |-> Undefined,
     response |-> NoResponse, result |-> Undefined,
     returned |-> [id |-> Undefined, answer |-> Undefined],
     error |-> NoError, failedAt |-> "", settingsAtCall |-> NoSettings,
     fetches |-> 0, reads |-> 0, decodes |-> 0, posts |-> 0,
     waits |-> 0, gets |-> 0, polls |-> <<>>]

\* The getBalance call and the report call of the model, not started: the
\* argument, the query of the GET, the value the call resolved to or the error
\* it rejected with.
Methods == {"getBalance", "report"}
IdleOther ==
    [pc |-> "idle", captchaId |-> Undefined, query |-> EmptyQuery,
     returned |-> Undefined, error |-> NoError]

Init ==
    /\ settings \in SettingsInputs
    /\ solver = NoSolver
    /\ heap = InitialHeap
    /\ call = [c \in Calls |-> IdleCall]
    /\ other = [m \in Methods |-> IdleOther]

\* Reject with a catch around the await that swallows the error: the call
\* goes on to return.
RejectSwallowed(me, stage, error) ==
    [me EXCEPT !.pc = "returned", !.failedAt = stage]

\* An awaited primitive of call record `me` failed at `stage`: no await of
\* solve, _sendImage, _getAnswer or _fetchImage stands in a try, so the async
\* function rejects with that error.
Reject(me, stage, error) ==
    [me EXCEPT !.pc = "threw", !.error = error, !.failedAt = stage]

\* A counter of the poll loop, counted up to MaxPolls.
Inc(n) == Min(n + 1, MaxPolls)

\* The poll history with one more response, kept up to MaxPolls entries.
Record(polls, response) ==
    IF Len(polls) < MaxPolls THEN Append(polls, response) ELSE polls

-----------------------------------------------------------------------------
(* new Solver(settings)                                                    *)

\* this.retryInterval = settings.retryInterval || 3000
DefaultRetryInterval == 3000
RetryIntervalOf(s) ==
    IF Truthy(s.retryInterval) THEN s.retryInterval ELSE Num(DefaultRetryInterval)

\* ConstructorError without the test of this.apiKey.
ConstructorErrorNoKeyCheck(s) ==
    IF s.t # "object" THEN Error(Str("No settings found for solver"))
    ELSE NoError

\* What the constructor throws for settings s; NoError when it returns.
ConstructorError(s) ==
    IF s.t # "object" THEN Error(Str("No settings found for solver"))
    ELSE IF ~Truthy(s.apiKey) THEN Error(Str("Can't find api key"))
    ELSE NoError

Constructor ==
    /\ solver.state = "none"
    /\ solver' =
         IF ConstructorError(settings) # NoError
         THEN [NoSolver EXCEPT !.state = "threw",
                               !.error = ConstructorError(settings)]
         ELSE [state |-> "ok",
               apiKey |-> settings.apiKey,
               retryInterval |-> RetryIntervalOf(settings),
               POST_URL |-> "http://rucaptcha.com/in.php",
               GET_URL |-> "http://rucaptcha.com/res.php",
               error |-> NoError,
               captured |-> settings]
    /\ UNCHANGED <<settings, heap, call, other>>

-----------------------------------------------------------------------------
(* solve(image, options): _fetchImage                                      *)

\* The text a RegExp tests when given `image`.
ImageText(image) ==
    IF image.kind = "buffer" THEN BufferToString(image.data) ELSE image.data

\* The branch of _fetchImage that `image` takes.
_fetchImage(image) ==
    IF MatchesHttp(ImageText(image)) THEN "url"
    ELSE IF image.kind = "buffer" THEN "buffer"
    ELSE IF isBase64(ImageText(image)) THEN "base64"
    ELSE "file"

\* solve is called: _fetchImage runs up to its first await or to its return.
Solve(c, image, o) ==
    /\ solver.state = "ok"
    /\ call[c].pc = "idle"
    /\ LET me == [call[c] EXCEPT !.image = image, !.options = o,
                                 !.given = heap[o],
                                 !.settingsAtCall = settings]
           branch == _fetchImage(image)
       IN  call' = [call EXCEPT ![c] =
             CASE branch = "url" ->
                    [me EXCEPT !.pc = "httpFetch", !.fetches = @ + 1]
               [] branch = "buffer" ->
                    [me EXCEPT !.pc = "resolved", !.buffer = image.data]
               [] branch = "base64" ->
                    [me EXCEPT !.pc = "resolved", !.decodes = @ + 1,
                               !.buffer = Base64Decode(image.data)]
               [] OTHER ->
                    [me EXCEPT !.pc = "readFile", !.reads = @ + 1]]
    /\ UNCHANGED <<settings, solver, heap, other>>

\* The HTTP fetch of the image ends.
FetchImageDone(c, outcome) ==
    /\ call[c].pc = "httpFetch"
    /\ call' = [call EXCEPT ![c] =
         IF outcome.ok
         THEN [@ EXCEPT !.pc = "resolved", !.buffer = outcome.body]
         ELSE Reject(@, "resolve", outcome.error)]
    /\ UNCHANGED <<settings, solver, heap, other>>

\* The file read ends.
ReadFileDone(c, outcome) ==
    /\ call[c].pc = "readFile"
    /\ call' = [call EXCEPT ![c] =
         IF outcome.ok
         THEN [@ EXCEPT !.pc = "resolved", !.buffer = outcome.body]
         ELSE Reject(@, "resolve", outcome.error)]
    /\ UNCHANGED <<settings, solver, heap, other>>

\* const base64Image = await this._bufferToBase64(buffer)
BufferToBase64(c) ==
    /\ call[c].pc = "resolved"
    /\ call' = [call EXCEPT ![c] =
         [@ EXCEPT !.pc = "encoded",
                   !.base64Image = _bufferToBase64(call[c].buffer)]]
    /\ UNCHANGED <<settings, solver, heap, other>>


-----------------------------------------------------------------------------
(* _sendImage(base64Image, options)                                        *)

\* Mandatory with the key read from the caller's settings object at the time
\* of the call.
MandatoryFromSettings ==
    [k \in {"key", "method", "json"} |->
        CASE k = "key" -> settings.apiKey
          [] k = "method" -> Str("base64")
          [] OTHER -> Num(1)]

\* { key: this.apiKey, method: 'base64', json: 1 }
Mandatory ==
    [k \in {"key", "method", "json"} |->
        CASE k = "key" -> solver.apiKey
          [] k = "method" -> Str("base64")
          [] OTHER -> Num(1)]

\* MergedOptions with the arguments of Object.assign the wrong way round: the
\* caller's values win.
MergedOptionsCallerWins(options) == ObjectAssign(Mandatory, options)

\* Object.assign(options, { key: this.apiKey, method: 'base64', json: 1 })
MergedOptions(options) == ObjectAssign(options, Mandatory)

\* SendImage without the await on request.post: _sendImage goes on while the
\* POST is still in flight.
SendImageNoAwait(c) ==
    /\ call[c].pc = "encoded"
    /\ LET o == call[c].options IN
       /\ heap' = [heap EXCEPT ![o] = MergedOptions(heap[o])]
       /\ call' = [call EXCEPT ![c] =
            [@ EXCEPT !.pc = "sent",
                      !.postQuery = Stringify(heap'[o]),
                      !.postBody = call[c].base64Image,
                      !.posts = @ + 1]]
    /\ UNCHANGED <<settings, solver, other>>

\* SendImage with the merge done into a copy: the caller's object is left as
\* it was.
SendImageCopy(c) ==
    /\ call[c].pc = "encoded"
    /\ call' = [call EXCEPT ![c] =
         [@ EXCEPT !.pc = "posting",
                   !.postQuery = Stringify(MergedOptions(heap[call[c].options])),
                   !.postBody = call[c].base64Image,
                   !.posts = @ + 1]]
    /\ UNCHANGED <<settings, solver, heap, other>>

\* The options are merged in place, the URL is built and the POST is issued.
SendImage(c) ==
    /\ call[c].pc = "encoded"
    /\ LET o == call[c].options IN
       /\ heap' = [heap EXCEPT ![o] = MergedOptions(heap[o])]
       /\ call' = [call EXCEPT ![c] =
            [@ EXCEPT !.pc = "posting",
                      !.postQuery = Stringify(heap'[o]),
                      !.postBody = call[c].base64Image,
                      !.posts = @ + 1]]
    /\ UNCHANGED <<settings, solver, other>>

\* SubmitStep without the status test.
SubmitStepNoCheck(response) == "return"

\* What _sendImage does with the parsed response: "throw" or "return".
SubmitStep(response) ==
    IF response.status = 0 THEN "throw" ELSE "return"

\* The POST ends: the body is parsed, and _sendImage throws or returns the id.
PostDone(c, outcome) ==
    /\ call[c].pc = "posting"
    /\ call' = [call EXCEPT ![c] =
         IF ~outcome.ok
         THEN Reject(@, "post", RequestError)
         ELSE IF ~outcome.json
         THEN [@ EXCEPT !.pc = "threw", !.error = SyntaxError]
         ELSE IF SubmitStep(outcome) = "throw"
         THEN [@ EXCEPT !.pc = "threw", !.postResponse = outcome,
                        !.error = Error(outcome.request)]
         ELSE [@ EXCEPT !.pc = "sent", !.postResponse = outcome,
                        !.id = parseInt(outcome.request.v)]]
    /\ UNCHANGED <<settings, solver, heap, other>>

-----------------------------------------------------------------------------
(* _getAnswer(captchaId)                                                   *)

\* GetQueryObj with the id left out of the object.
GetQueryObjNoId(captchaId) ==
    [k \in {"key", "action", "json"} |->
        CASE k = "key" -> solver.apiKey
          [] k = "action" -> Str("get")
          [] OTHER -> Num(1)]

\* { key: this.apiKey, action: 'get', id: captchaId, json: 1 }
GetQueryObj(captchaId) ==
    [k \in {"key", "action", "id", "json"} |->
        CASE k = "key" -> solver.apiKey
          [] k = "action" -> Str("get")
          [] k = "id" -> captchaId
          [] OTHER -> Num(1)]

\* GetAnswer with the delay moved behind the request: the first GET is issued
\* at once.
GetAnswerNoDelay(c) ==
    /\ call[c].pc = "sent"
    /\ call' = [call EXCEPT ![c] =
         [@ EXCEPT !.pc = "getting",
                   !.getQuery = Stringify(GetQueryObj(call[c].id)),
                   !.gets = Inc(@)]]
    /\ UNCHANGED <<settings, solver, heap, other>>

\* GetAnswer with the id kept in one place for all calls: a call polls with the
\* id of the other call's submission when there is one.
GetAnswerSharedId(c) ==
    /\ call[c].pc = "sent"
    /\ LET d == CHOOSE d \in Calls : d # c
           captchaId == IF call[d].id # Undefined THEN call[d].id ELSE call[c].id
       IN  call' = [call EXCEPT ![c] =
             [@ EXCEPT !.pc = "delaying",
                       !.getQuery = Stringify(GetQueryObj(captchaId)),
                       !.delay = solver.retryInterval,
                       !.waits = Inc(@)]]
    /\ UNCHANGED <<settings, solver, heap, other>>

\* _getAnswer starts: the URL is built and the first delay begins.
GetAnswer(c) ==
    /\ call[c].pc = "sent"
    /\ call' = [call EXCEPT ![c] =
         [@ EXCEPT !.pc = "delaying",
                   !.getQuery = Stringify(GetQueryObj(call[c].id)),
                   !.delay = solver.retryInterval,
                   !.waits = Inc(@)]]
    /\ UNCHANGED <<settings, solver, heap, other>>

\* The delay ends and the GET is issued.
DelayDone(c) ==
    /\ call[c].pc = "delaying"
    /\ call' = [call EXCEPT ![c] = [@ EXCEPT !.pc = "getting", !.gets = Inc(@)]]
    /\ UNCHANGED <<settings, solver, heap, other>>

\* PollStep with the failure branch left out: a definitive failure is polled
\* again like a not-ready response.
PollStepRetriesFailure(response) ==
    IF response.status = 1 THEN "solved" ELSE "again"

\* PollStep with `||` written for `&&`: a not-ready response ends the loop.
PollStepOr(response) ==
    IF response.status = 1 THEN "solved"
    ELSE IF response.request # Str("CAPCHA_NOT_READY") \/ response.status = 0
    THEN "break"
    ELSE "again"

\* What one pass of the loop does with the parsed response: "solved" (result
\* is set, break), "break" (the break that stands before the throw, result
\* left unset) or "again" (the next pass).
PollStep(response) ==
    IF response.status = 1 THEN "solved"
    ELSE IF response.request # Str("CAPCHA_NOT_READY") /\ response.status = 0
    THEN "break"
    ELSE "again"

\* The GET ends: the body is parsed; the loop ends or starts its next delay;
\* after the loop _getAnswer returns result and solve returns {id, answer}.
GetDone(c, outcome) ==
    /\ call[c].pc = "getting"
    /\ call' = [call EXCEPT ![c] =
         IF ~outcome.ok
         THEN Reject(@, "get", RequestError)
         ELSE IF ~outcome.json
         THEN [@ EXCEPT !.pc = "threw", !.error = SyntaxError]
         ELSE LET step == PollStep(outcome)
                  seen == [call[c] EXCEPT !.response = outcome,
                                          !.polls = Record(@, outcome)]
              IN  CASE step = "solved" ->
                         [seen EXCEPT !.pc = "returned",
                                      !.result = outcome.request,
                                      !.returned = [id |-> call[c].id,
                                                    answer |-> outcome.request]]
                    [] step = "break" ->
                         [seen EXCEPT !.pc = "returned",
                                      !.returned = [id |-> call[c].id,
                                                    answer |-> call[c].result]]
                    [] OTHER ->
                         [seen EXCEPT !.pc = "delaying", !.waits = Inc(@)]]
    /\ UNCHANGED <<settings, solver, heap, other>>

-----------------------------------------------------------------------------
(* getBalance() and report(captchaId)                                      *)

\* { key: this.apiKey, action: 'getbalance' }
BalanceQueryObj ==
    [k \in {"key", "action"} |->
        IF k = "key" THEN solver.apiKey ELSE Str("getbalance")]

\* getBalance is called: the GET is issued.
GetBalance ==
    /\ solver.state = "ok"
    /\ other["getBalance"].pc = "idle"
    /\ other' = [other EXCEPT !["getBalance"] =
         [@ EXCEPT !.pc = "getting", !.query = Stringify(BalanceQueryObj)]]
    /\ UNCHANGED <<settings, solver, heap, call>>

\* The GET ends: getBalance returns parseFloat of the body.
GetBalanceDone(outcome) ==
    /\ other["getBalance"].pc = "getting"
    /\ other' = [other EXCEPT !["getBalance"] =
         IF outcome.ok
         THEN [@ EXCEPT !.pc = "returned", !.returned = parseFloat(outcome.body)]
         ELSE [@ EXCEPT !.pc = "threw", !.error = outcome.error]]
    /\ UNCHANGED <<settings, solver, heap, call>>

\* { key: this.apiKey, action: 'reportbad', id: captchaId }
ReportQueryObj(captchaId) ==
    [k \in {"key", "action", "id"} |->
        CASE k = "key" -> solver.apiKey
          [] k = "action" -> Str("reportbad")
          [] OTHER -> captchaId]

\* report is called: the GET is issued.
Report(captchaId) ==
    /\ solver.state = "ok"
    /\ other["report"].pc = "idle"
    /\ other' = [other EXCEPT !["report"] =
         [@ EXCEPT !.pc = "getting", !.captchaId = captchaId,
                   !.query = Stringify(ReportQueryObj(captchaId))]]
    /\ UNCHANGED <<settings, solver, heap, call>>

\* The GET ends: report returns the body as it is.
ReportDone(outcome) ==
    /\ other["report"].pc = "getting"
    /\ other' = [other EXCEPT !["report"] =
         IF outcome.ok
         THEN [@ EXCEPT !.pc = "returned", !.returned = outcome.body]
         ELSE [@ EXCEPT !.pc = "threw", !.error = outcome.error]]
    /\ UNCHANGED <<settings, solver, heap, call>>

\* The caller assigns `value` to a property of the settings object it once
\* passed to the constructor.
ChangeSettings(field, value) ==
    /\ solver.state = "ok"
    /\ settings[field] # value
    /\ settings' = [settings EXCEPT ![field] = value]
    /\ UNCHANGED <<solver, heap, call, other>>

-----------------------------------------------------------------------------
(* The program.                                                            *)

\* The steps of solve call c, its image drawn from `images`, its options
\* object from `objects`, the outcomes of its POST from `submitted` and those
\* of its poll GETs from `polled`.
SolveStepWith(c, images, objects, submitted, polled) ==
    \/ \E image \in images, o \in objects : Solve(c, image, o)
    \/ \E outcome \in FetchOutcomes : FetchImageDone(c, outcome)
    \/ \E outcome \in ReadOutcomes : ReadFileDone(c, outcome)
    \/ BufferToBase64(c)
    \/ SendImage(c)
    \/ \E outcome \in submitted : PostDone(c, outcome)
    \/ GetAnswer(c)
    \/ DelayDone(c)
    \/ \E outcome \in polled : GetDone(c, outcome)

\* The steps of solve call c with every outcome of the model.
SolveStep(c, images, objects) ==
    SolveStepWith(c, images, objects, PostOutcomes, PollOutcomes)

\* One client and one solve call, with every input of the model.
Next ==
    \/ Constructor
    \/ SolveStep("c1", Images, {"o1", "o2", "c1"})

Spec == Init /\ [][Next]_vars

\* What happens to a started call without the caller doing anything: an HTTP
\* request, a file read or a delay completes, or the function resumes after an
\* await.
Progress(c) ==
    \/ \E outcome \in FetchOutcomes : FetchImageDone(c, outcome)
    \/ \E outcome \in ReadOutcomes : ReadFileDone(c, outcome)
    \/ BufferToBase64(c)
    \/ SendImage(c)
    \/ \E outcome \in PostOutcomes : PostDone(c, outcome)
    \/ GetAnswer(c)
    \/ DelayDone(c)
    \/ \E outcome \in PollOutcomes : GetDone(c, outcome)

\* The program under the assumption that every HTTP call, file read and delay
\* completes and that the event loop resumes every ready continuation.  When
\* the constructor and solve are called is left to the caller.
LiveSpec == Spec /\ \A c \in Calls : WF_vars(Progress(c))

\* The steps of getBalance and report.
OtherStep ==
    \/ GetBalance
    \/ \E outcome \in BalanceOutcomes : GetBalanceDone(outcome)
    \/ \E captchaId \in ReportIds : Report(captchaId)
    \/ \E outcome \in ReportOutcomes : ReportDone(outcome)

\* One client used by two solve calls at once and by getBalance and report.
\* The first call takes a URL or a file path and the options object o2; its
\* submission is answered with id "42" or "x1", a poll with not-ready, the
\* answer "ABCD" or a definitive failure.  The second call takes a Buffer and
\* the same object o2 or a fresh {}; its submission is answered with id "7",
\* a poll with not-ready or the answer "WXYZ".
ConcurrentInit ==
    /\ settings = SettingsObject(Str("k1"), Num(500), Undefined)
    /\ solver = NoSolver
    /\ heap = InitialHeap
    /\ call = [c \in Calls |-> IdleCall]
    /\ other = [m \in Methods |-> IdleOther]

ConcurrentImages ==
    { StringImage(<<104, 116, 116, 112, 58, 47, 47, 97>>),
      StringImage(<<97, 46, 112, 110, 103>>) }

ConcurrentPosts == {Json(1, Chars(<<52, 50>>)), Json(1, Chars(<<120, 49>>))}

ConcurrentPolls ==
    {NotReady, Json(1, Str("ABCD")), Json(0, Str("ERROR_WRONG_CAPTCHA_ID"))}

SecondImages == {BufferImage(<<1, 2, 3>>)}
SecondPosts == {Json(1, Chars(<<55>>))}
SecondPolls == {NotReady, Json(1, Str("WXYZ"))}

ConcurrentNext ==
    \/ Constructor
    \/ SolveStepWith("c1", ConcurrentImages, {"o2"},
                     ConcurrentPosts, ConcurrentPolls)
    \/ SolveStepWith("c2", SecondImages, {"o2", "c2"},
                     SecondPosts, SecondPolls)
    \/ OtherStep

ConcurrentSpec == ConcurrentInit /\ [][ConcurrentNext]_vars

\* One client whose caller goes on changing the settings object after the
\* constructor returned, used by one solve call, getBalance and report.
SettingsChanges ==
    { <<"apiKey", Str("k2")>>, <<"apiKey", Undefined>>,
      <<"retryInterval", Num(900)>> }

CapturedNext ==
    \/ Constructor
    \/ \E change \in SettingsChanges : ChangeSettings(change[1], change[2])
    \/ SolveStepWith("c1", ConcurrentImages, {"o2", "c1"},
                     ConcurrentPosts, ConcurrentPolls)
    \/ OtherStep

CapturedSpec == ConcurrentInit /\ [][CapturedNext]_vars


-----------------------------------------------------------------------------
(* Vocabulary of the properties.                                           *)

\* The call has ended: solve resolved or rejected.
Ended(c) == call[c].pc \in {"returned", "threw"}

\* The call is inside the poll loop.
Polling(c) == call[c].pc \in {"delaying", "getting"}

\* Every poll response the call has received so far is the not-ready one.
AllNotReady(c) ==
    \A i \in DOMAIN call[c].polls : call[c].polls[i] = NotReady

\* The latest poll response is a definitive failure of the service.
TerminalFailure(response) ==
    /\ response.json
    /\ response.status = 0
    /\ response.request # Str("CAPCHA_NOT_READY")

-----------------------------------------------------------------------------
(* C1 *)

\* C1: solve returns a result {id, answer} only if a poll response of that
\* call had status 1, and then answer is that response's request; in every
\* other outcome solve ends with an error, never with a result whose answer is
\* missing.
C1_ResultOnlyFromSolvedPoll ==
    \A c \in Calls :
        call[c].pc = "returned" =>
            /\ call[c].response.status = 1
            /\ call[c].returned.answer = call[c].response.request
            /\ call[c].returned.answer # Undefined

-----------------------------------------------------------------------------
(* C2 *)

-----------------------------------------------------------------------------
(* C3 *)

\* C3: once a poll response with status 0 and a request other than
\* 'CAPCHA_NOT_READY' has arrived, poll has failed with an error whose message
\* is that request, and no further wait or GET is performed.
C3_TerminalFailureThrows ==
    \A c \in Calls :
        TerminalFailure(call[c].response) =>
            /\ call[c].pc = "threw"
            /\ call[c].error.message = call[c].response.request


-----------------------------------------------------------------------------
(* C4 *)

\* solve has been called.
Started(c) == call[c].pc # "idle"

\* The latest poll response sent the loop into its next pass: it is neither a
\* solved response nor a definitive failure, and the call waits again.
Continued(c) ==
    /\ call[c].pc = "delaying"
    /\ call[c].response.json
    /\ call[c].response.status # 1
    /\ ~TerminalFailure(call[c].response)

-----------------------------------------------------------------------------
(* C5 *)

\* The call returned after exactly k poll responses: k-1 not-ready ones and
\* then one with status 1.  (k < MaxPolls, so the counters are exact.)
SolvedAfter(c, k) ==
    /\ call[c].pc = "returned"
    /\ Len(call[c].polls) = k
    /\ \A i \in 1..(k - 1) : call[c].polls[i] = NotReady
    /\ call[c].polls[k].status = 1

\* C5 as claimed: after k-1 not-ready responses and a status-1 response, poll
\* has returned that response's request after exactly k GETs and k-1 waits.
C5_KGetsAndKMinusOneWaits ==
    \A c \in Calls : \A k \in 1..(MaxPolls - 1) :
        SolvedAfter(c, k) =>
            /\ call[c].returned.answer = call[c].polls[k].request
            /\ call[c].gets = k
            /\ call[c].waits = k - 1

\* C5, amended: after k-1 not-ready responses and a status-1 response, poll
\* has returned that response's request after exactly k GETs and exactly k
\* waits: one wait before every GET, the first included.
C5_KGetsAndKWaits ==
    \A c \in Calls : \A k \in 1..(MaxPolls - 1) :
        SolvedAfter(c, k) =>
            /\ call[c].returned.answer = call[c].polls[k].request
            /\ call[c].result = call[c].polls[k].request
            /\ call[c].gets = k
            /\ call[c].waits = k

\* C5 witness: [not-ready, not-ready, {status: 1, request: "ABCD"}] gave
\* "ABCD" after 3 GETs and 3 waits.
C5_Witness ==
    /\ SolvedAfter("c1", 3)
    /\ call["c1"].polls[3] = Json(1, Str("ABCD"))
    /\ call["c1"].returned.answer = Str("ABCD")
    /\ call["c1"].gets = 3
    /\ call["c1"].waits = 3


-----------------------------------------------------------------------------
(* C6 *)

MandatoryKeys == {"key", "method", "json"}

\* C6: the query of the submission POST holds every key the caller supplied
\* (the other keys with the caller's values), and key, method and json hold
\* the client's apiKey, 'base64' and 1 whatever the caller supplied for them.
C6_QueryHasCallerKeysAndMandatoryValues ==
    \A c \in Calls :
        call[c].posts >= 1 =>
            /\ DOMAIN call[c].given \subseteq DOMAIN call[c].postQuery
            /\ \A k \in (DOMAIN call[c].given) \ MandatoryKeys :
                   call[c].postQuery[k] = StringifyPrimitive(call[c].given[k])
            /\ MandatoryKeys \subseteq DOMAIN call[c].postQuery
            /\ call[c].postQuery["key"] = solver.apiKey.v
            /\ call[c].postQuery["method"] = "base64"
            /\ call[c].postQuery["json"] = "1"

\* C6 witness: a POST was issued for options that came with their own key,
\* method and json and with one more key.
C6_Witness ==
    /\ call["c1"].posts = 1
    /\ MandatoryKeys \subseteq DOMAIN call["c1"].given
    /\ call["c1"].given["method"] = Str("post")
    /\ call["c1"].given["json"] = Num(0)
    /\ call["c1"].given["key"] = Str("zz")
    /\ call["c1"].postQuery["phrase"] = "1"

-----------------------------------------------------------------------------
(* C7 *)

\* C7: when the submission response has status 0, solve has failed with an
\* error whose message is that response's request, exactly one POST was
\* issued, and no wait and no poll GET is performed.
C7_RejectedSubmissionThrows ==
    \A c \in Calls :
        (call[c].postResponse.json /\ call[c].postResponse.status = 0) =>
            /\ call[c].pc = "threw"
            /\ call[c].error = Error(call[c].postResponse.request)
            /\ call[c].posts = 1
            /\ call[c].waits = 0
            /\ call[c].gets = 0

\* C7 witness: the submission was answered {status: 0, request: "ERR"}.
C7_Witness ==
    /\ call["c1"].postResponse = Json(0, Chars(<<69, 82, 82>>))
    /\ call["c1"].pc = "threw"

-----------------------------------------------------------------------------
(* C8 *)

\* solve failed before it issued the POST, that is inside _fetchImage.
FailedInResolve(c) == call[c].pc = "threw" /\ call[c].posts = 0

\* C8: for a Buffer image, whatever its bytes, the resolved buffer is that
\* Buffer, and no HTTP fetch, no base64 decoding and no file read is done, and
\* the resolution does not fail.
C8_BufferPassesThrough ==
    \A c \in Calls :
        (Started(c) /\ call[c].image.kind = "buffer") =>
            /\ call[c].buffer = call[c].image.data
            /\ call[c].fetches = 0
            /\ call[c].decodes = 0
            /\ call[c].reads = 0
            /\ ~FailedInResolve(c)

-----------------------------------------------------------------------------
(* C9 *)

\* The text begins with 'http://' or 'https://'.
HasUrlPrefix(str) ==
    \/ Len(str) >= 7 /\ SubSeq(str, 1, 7) = <<104, 116, 116, 112, 58, 47, 47>>
    \/ Len(str) >= 8 /\ SubSeq(str, 1, 8) = <<104, 116, 116, 112, 115, 58, 47, 47>>

\* C9: for a string image that matches the base64 pattern and does not begin
\* with 'http://' or 'https://', the resolved buffer is the base64 decoding of
\* the string, no HTTP fetch and no file read is done, and the resolution does
\* not fail.
C9_Base64IsDecoded ==
    \A c \in Calls :
        (/\ Started(c)
         /\ call[c].image.kind = "string"
         /\ isBase64(call[c].image.data)
         /\ ~HasUrlPrefix(call[c].image.data)) =>
            /\ call[c].buffer = Base64Decode(call[c].image.data)
            /\ call[c].decodes = 1
            /\ call[c].fetches = 0
            /\ call[c].reads = 0
            /\ ~FailedInResolve(c)

-----------------------------------------------------------------------------
(* C10 *)

\* The settings are absent, not an object, or lack apiKey.
BadSettings(s) == s.t # "object" \/ s.apiKey = Undefined

\* C10: with settings that are absent, not an object or without apiKey there
\* is never a client instance: the constructor has not run yet or it threw,
\* and no solve call has started, so no HTTP request, wait or file read has
\* been performed and no options object has been touched.
C10_BadSettingsGiveNoClient ==
    BadSettings(settings) =>
        /\ solver.state \in {"none", "threw"}
        /\ solver.state = "threw" => solver.error.name = "Error"
        /\ \A c \in Calls : call[c] = IdleCall
        /\ heap = InitialHeap

\* C10 witness: the constructor threw for a settings object without apiKey.
C10_Witness ==
    /\ settings = SettingsObject(Undefined, Num(500), Undefined)
    /\ solver.state = "threw"
    /\ solver.error = Error(Str("Can't find api key"))


-----------------------------------------------------------------------------
(* C11 *)

\* C11: in the poll loop every GET follows one wait of its own: while fewer
\* than MaxPolls GETs were issued (the counters are exact), the number of
\* waits started is the number of GETs issued, plus one exactly while a wait
\* is pending; and once a status-1 response has arrived poll has returned its
\* request, with no wait pending and no GET in flight.
C11_OneWaitBeforeEveryGet ==
    \A c \in Calls :
        /\ call[c].gets < MaxPolls =>
               call[c].waits =
                   call[c].gets + (IF call[c].pc = "delaying" THEN 1 ELSE 0)
        /\ (call[c].response.json /\ call[c].response.status = 1) =>
               /\ call[c].pc = "returned"
               /\ call[c].result = call[c].response.request
               /\ call[c].returned.answer = call[c].response.request

\* C11 witness: after two GETs that were answered not-ready, the third wait is
\* pending.
C11_Witness ==
    /\ call["c1"].pc = "delaying"
    /\ call["c1"].gets = 2
    /\ call["c1"].waits = 3
    /\ call["c1"].polls = <<NotReady, NotReady>>

-----------------------------------------------------------------------------
(* C12 *)

\* The handler the claimed order gives an image: URL prefix, then byte buffer,
\* then base64 text, then file path.
ExpectedHandler(image) ==
    IF image.kind = "string" /\ HasUrlPrefix(image.data) THEN "url"
    ELSE IF image.kind = "buffer" THEN "buffer"
    ELSE IF isBase64(image.data) THEN "base64"
    ELSE "file"

\* C12: a solve call resolves its image through exactly the one handler that
\* the order URL prefix ('http://' or 'https://'), byte buffer, base64 text,
\* file path gives it: the HTTP fetch for the first, no I/O for the second, a
\* base64 decoding for the third, the file read only for what matches none.
C12_HandlerByFirstMatch ==
    \A c \in Calls :
        Started(c) =>
            LET h == ExpectedHandler(call[c].image) IN
            /\ call[c].fetches = (IF h = "url" THEN 1 ELSE 0)
            /\ call[c].decodes = (IF h = "base64" THEN 1 ELSE 0)
            /\ call[c].reads = (IF h = "file" THEN 1 ELSE 0)

-----------------------------------------------------------------------------
(* C13 *)

\* C13: the stages of a solve call run in order without overlap: at most one
\* POST is issued, and only after the image was resolved and encoded (its body
\* is the encoding of the resolved buffer); while the image is being fetched
\* or read no POST was issued; while the POST is in flight no wait and no GET
\* has started; a wait or a GET has started only after the POST was answered
\* with a response that was not rejected.
C13_StagesInOrder ==
    \A c \in Calls :
        /\ call[c].posts <= 1
        /\ call[c].posts = 1 =>
               /\ call[c].pc \notin {"idle", "httpFetch", "readFile",
                                     "resolved", "encoded"}
               /\ call[c].postBody = _bufferToBase64(call[c].buffer)
        /\ call[c].pc \in {"httpFetch", "readFile"} => call[c].posts = 0
        /\ call[c].pc = "posting" => call[c].waits = 0 /\ call[c].gets = 0
        /\ (call[c].waits >= 1 \/ call[c].gets >= 1) =>
               /\ call[c].posts = 1
               /\ call[c].postResponse.json
               /\ call[c].postResponse.status # 0

\* C13 witness: a call that fetched its image over HTTP, posted it and has its
\* first poll GET in flight.
C13_Witness ==
    /\ call["c1"].pc = "getting"
    /\ call["c1"].fetches = 1
    /\ call["c1"].posts = 1
    /\ call["c1"].gets = 1

-----------------------------------------------------------------------------
(* C14 *)

\* C14: when the HTTP or file primitive failed, solve has ended with that
\* primitive's error and nothing follows: after a failed fetch or read no POST,
\* after a failed POST no wait and no GET, after a failed GET no further pass
\* of the loop; it is never retried and never turned into a returned result.
C14_PrimitiveFailureEndsSolve ==
    \A c \in Calls :
        /\ call[c].failedAt = "resolve" =>
               /\ call[c].pc = "threw"
               /\ call[c].fetches = 1 => call[c].error = RequestError
               /\ call[c].reads = 1 => call[c].error = FileError
               /\ call[c].fetches + call[c].reads = 1
               /\ call[c].posts = 0 /\ call[c].waits = 0 /\ call[c].gets = 0
        /\ call[c].failedAt = "post" =>
               /\ call[c].pc = "threw"
               /\ call[c].error = RequestError
               /\ call[c].posts = 1 /\ call[c].waits = 0 /\ call[c].gets = 0
        /\ call[c].failedAt = "get" =>
               /\ call[c].pc = "threw"
               /\ call[c].error = RequestError
               /\ call[c].gets < MaxPolls => call[c].waits = call[c].gets

\* C14 witness: the second poll GET failed.
C14_Witness ==
    /\ call["c1"].failedAt = "get"
    /\ call["c1"].gets = 2
    /\ call["c1"].pc = "threw"

-----------------------------------------------------------------------------
(* C15 *)

\* The submission was answered by a response that was not rejected.
Accepted(c) ==
    call[c].postResponse.json /\ call[c].postResponse.status # 0

\* The text is the decimal notation of a positive integer.
IsPositiveDecimal(str) ==
    /\ Len(str) >= 1
    /\ \A i \in 1..Len(str) : str[i] \in 48..57
    /\ str[1] # 48

-----------------------------------------------------------------------------
(* C16 *)

\* What call c has sent and returned is given by its own image, its own
\* options and the responses to its own requests.
OwnInputsOnly(c) ==
    LET me == call[c] IN
    /\ me.image.kind = "buffer" /\ me.pc \notin {"idle", "httpFetch", "readFile"}
           => me.buffer = me.image.data
    /\ me.posts >= 1 =>
           /\ me.postBody = _bufferToBase64(me.buffer)
           /\ me.postQuery = Stringify(ObjectAssign(me.given, Mandatory))
    /\ Accepted(c) => me.id = parseInt(me.postResponse.request.v)
    /\ me.waits >= 1 =>
           /\ me.getQuery = Stringify(GetQueryObj(me.id))
           /\ me.delay = solver.retryInterval
    /\ me.pc = "returned" =>
           /\ me.returned.id = me.id
           /\ me.returned.answer = me.result
           /\ me.result = IF me.response.status = 1
                          THEN me.response.request
                          ELSE Undefined

\* A step leaves the client instance as it is; a step of one solve call
\* leaves the other solve call, getBalance and report as they are, and a step
\* of getBalance or report leaves the solve calls as they are; an options
\* object changes only in the submission of a call it was passed to.
OneCallAtATime ==
    /\ solver.state = "ok" => solver' = solver
    /\ \A c \in Calls :
           call'[c] # call[c] =>
               /\ \A d \in Calls \ {c} : call'[d] = call[d]
               /\ other' = other
    /\ other' # other => call' = call /\ heap' = heap
    /\ \A o \in ObjIds :
           heap'[o] # heap[o] =>
               \E c \in Calls : /\ call[c].options = o
                                /\ call[c].posts = 0
                                /\ call'[c].posts = 1

\* C16: solve calls running at once on one client are independent: what each
\* sends and returns is given by its own image, options and responses, no step
\* of solve, getBalance or report changes a field of the client instance, and
\* a step of one call changes nothing of another call.
C16_CallsAreIndependent ==
    /\ [](\A c \in Calls : OwnInputsOnly(c))
    /\ [][OneCallAtATime]_vars

\* C16 witness: both solve calls have a poll GET in flight at once, with
\* different ids, while getBalance is waiting for its response and report
\* has returned.
C16_Witness ==
    /\ call["c1"].pc = "getting"
    /\ call["c2"].pc = "getting"
    /\ call["c1"].id = Num(42)
    /\ call["c2"].id = Num(7)
    /\ call["c1"].options = call["c2"].options
    /\ other["getBalance"].pc = "getting"
    /\ other["report"].pc = "returned"
    /\ solver.apiKey = Str("k1")

-----------------------------------------------------------------------------
(* C17 *)

\* The key the settings object held when the constructor ran, as a request
\* carries it.
CapturedKey == StringifyPrimitive(solver.captured.apiKey)

\* C17: the client uses the configuration captured at construction: whatever
\* the caller assigns to apiKey or retryInterval of the settings object
\* afterwards, the fields of the instance, the key of every POST and GET of
\* solve, getBalance and report and the delay of every wait are the values the
\* settings object had when the constructor ran.
C17_ConfigurationIsCaptured ==
    /\ solver.state = "ok" =>
           /\ solver.apiKey = solver.captured.apiKey
           /\ solver.retryInterval = RetryIntervalOf(solver.captured)
    /\ \A c \in Calls :
           /\ call[c].posts >= 1 => call[c].postQuery["key"] = CapturedKey
           /\ call[c].waits >= 1 =>
                  /\ call[c].getQuery["key"] = CapturedKey
                  /\ call[c].delay = RetryIntervalOf(solver.captured)
    /\ \A m \in Methods :
           other[m].pc # "idle" => other[m].query["key"] = CapturedKey

\* C17 witness: the caller changed apiKey and retryInterval after
\* construction and before solve was called; the call has returned with the
\* captured key and delay, and getBalance and report have their GET in flight.
C17_Witness ==
    /\ solver.captured = SettingsObject(Str("k1"), Num(500), Undefined)
    /\ call["c1"].settingsAtCall = SettingsObject(Str("k2"), Num(900), Undefined)
    /\ call["c1"].pc = "returned"
    /\ call["c1"].postQuery["key"] = "k1"
    /\ call["c1"].delay = Num(500)
    /\ settings = SettingsObject(Str("k2"), Num(900), Undefined)
    /\ other["getBalance"].pc = "getting"
    /\ other["report"].pc = "getting"

-----------------------------------------------------------------------------
(* C18 *)

\* C18: the mandatory fields are merged into the caller's own options object:
\* once a call has submitted, the object it was passed holds key = the
\* client's apiKey, method = 'base64' and json = 1 and its other keys as the
\* caller passed them; and two calls that were passed the same object both
\* submit with the same mandatory values, however they interleave.
C18_MergeInPlace ==
    /\ \A c \in Calls :
           call[c].posts >= 1 =>
               LET o == heap[call[c].options] IN
               /\ DOMAIN o = (DOMAIN call[c].given) \cup MandatoryKeys
               /\ o["key"] = solver.apiKey
               /\ o["method"] = Str("base64")
               /\ o["json"] = Num(1)
               /\ \A k \in (DOMAIN call[c].given) \ MandatoryKeys :
                      o[k] = call[c].given[k]
    /\ \A c, d \in Calls :
           (/\ c # d
            /\ call[c].options = call[d].options
            /\ call[c].posts >= 1
            /\ call[d].posts >= 1) =>
               \A k \in MandatoryKeys :
                   /\ call[c].postQuery[k] = StringifyPrimitive(Mandatory[k])
                   /\ call[d].postQuery[k] = call[c].postQuery[k]

\* C18 witness: both calls were passed the object o2 before either had
\* submitted, and both have submitted.
C18_Witness ==
    /\ call["c1"].options = "o2"
    /\ call["c2"].options = "o2"
    /\ call["c1"].given = InitialHeap["o2"]
    /\ call["c2"].given = InitialHeap["o2"]
    /\ call["c1"].posts = 1
    /\ call["c2"].posts = 1
    /\ heap["o2"]["key"] = Str("k1")
    /\ heap["o2"]["phrase"] = Num(1)

====
